---- MODULE Spec2Model ----
(***************************************************************************)
(* Model of the execution scheduler of newrelic-pixie-integration:         *)
(* internal/worker/worker.go (worker.Metrics, worker.Spans, worker.run)    *)
(* and the row conversion of internal/adapter/jvm.go.                      *)
(*                                                                         *)
(* One supervisor (worker.run) per integration.  Every cycle launches one  *)
(* background goroutine (worker.go:85-100) that executes the script,       *)
(* streams the rows into the handler h and sends the handler's batch.      *)
(*                                                                         *)
(* Time is counted in seconds.  Each supervisor reads the clock relative   *)
(* to the start of its current cycle: elapsed[w] is time.Now() - start.    *)
(* Statements that do not block take no time; time passes while the        *)
(* supervisors are blocked (select at worker.go:101, time.Sleep at :67 and *)
(* :117), and timers fire when they are due.  The log call that follows    *)
(* the select (worker.go:104,106,110) writes to the log output and may     *)
(* take time, recorded in lag for the cycle they delay and in late for    *)
(* all.    The background goroutines are preemptible at every blocking     *)
(* call and between Stream and send.  An unrecovered panic terminates the  *)
(* process: every goroutine and all of the process's memory is gone.       *)
(***************************************************************************)
EXTENDS Integers, Sequences, FiniteSets, TLC

\* ---- bounds ----
MaxWork == 5         \* size of a behaviour: 2 for every cycle started, and 1
                     \* for every recovered panic, every second a log call
                     \* takes, and the shutdown
MaxRows == 2         \* rows the streams deliver, all together

\* ---- configuration ----
Workers  == {"A", "B"}
\* adapter.CollectIntervalSec(): positive integer seconds
Interval == [w \in Workers |-> IF w = "A" THEN 2 ELSE 3]
\* time.Sleep(10 * time.Second) in the deferred recover
Cooldown == 10
\* the second that collectIntervalSec - 1 keeps between deadline and interval
DeadlineMargin == 1
\* ch := make(chan error, 1): the buffer of the completion channel
ChCap == 1

Cycles == 1..(MaxWork \div 2)

VARIABLES
  ctxDone,    \* w.ctx is cancelled (outer shutdown signal)
  procAlive,  \* the process has not been terminated by an unrecovered panic
  wgCount,    \* counter of the shared sync.WaitGroup
  pc,         \* position of each supervisor in worker.run
  cycle,      \* number of cycles each supervisor has started
  elapsed,    \* time.Now() - start: seconds since the current cycle started
  wake,       \* value of elapsed at which the pending timer or sleep is due
  lag,        \* seconds the log call after the select took in the current cycle
  late,       \* seconds such log calls took, all together
  lastEnd,    \* how the wait of the current cycle ended
  skipped,    \* the current cycle logged "skipping the sleep" (line 119)
  faults,     \* panics recovered by each supervisor
  doneCalls,  \* wg.Done() calls of each worker
  g,          \* the background goroutine of each cycle, with its ch and pixieCtx
  acc,        \* h.metrics / h.spans: the batch of the worker's handler
  exported,   \* the last batch the exporter received from each worker, and
              \* the run whose h.send handed it over
  delivered   \* rows the streams have delivered, all together

\* the supervisors' state, the clocks, the goroutines' state, the rest
supVars == <<pc, cycle, wake, lastEnd, skipped, faults>>
clkVars == <<elapsed, lag, late>>
goVars  == <<g, acc, exported, delivered>>
envVars == <<ctxDone, procAlive, wgCount, doneCalls>>
vars == <<supVars, clkVars, goVars, envVars>>

\* a goroutine that was never launched
NoGo == [pc |-> "none", rows |-> 0, execErr |-> "none", streamErr |-> "none",
         sends |-> 0, ch |-> "empty", cancelled |-> FALSE, closed |-> FALSE]

\* nothing was sent yet
NoExport == [run |-> 0, batch |-> <<>>]

\* worker.Metrics / worker.Spans: the handler h is built once, with an empty
\* batch, and handed to worker.run; the fleet driver has started the
\* integrations that are configured, some or all of Workers, and has added
\* each of them to the WaitGroup
Init ==
  /\ ctxDone = FALSE
  /\ procAlive = TRUE
  /\ \E on \in (SUBSET Workers) \ {{}} :
       /\ pc = [w \in Workers |-> IF w \in on THEN "top" ELSE "off"]
       /\ wgCount = Cardinality(on)
  /\ cycle = [w \in Workers |-> 0]
  /\ elapsed = [w \in Workers |-> 0]
  /\ wake = [w \in Workers |-> 0]
  /\ lag = [w \in Workers |-> 0]
  /\ late = 0
  /\ lastEnd = [w \in Workers |-> "none"]
  /\ skipped = [w \in Workers |-> FALSE]
  /\ faults = [w \in Workers |-> 0]
  /\ doneCalls = [w \in Workers |-> 0]
  /\ g = [w \in Workers |-> [c \in Cycles |-> NoGo]]
  /\ acc = [w \in Workers |-> <<>>]
  /\ exported = [w \in Workers |-> NoExport]
  /\ delivered = 0

RECURSIVE SumOver(_, _)
SumOver(f, S) ==
  IF S = {} THEN 0
  ELSE LET x == CHOOSE y \in S : TRUE IN f[x] + SumOver(f, S \ {x})

CyclesStarted == SumOver(cycle, Workers)
FaultsRecovered == SumOver(faults, Workers)

\* what the behaviour has used of MaxWork
Work ==
  2 * CyclesStarted + FaultsRecovered + late + (IF ctxDone THEN 1 ELSE 0)

\* ---- pure parts of worker.run ----

\* collectInterval := time.Duration(collectIntervalSec) * time.Second
CollectInterval(sec) == sec

\* the deadline leaves out the whole interval
MaxExecutionTimeFull(sec) == sec

\* maxExecutionTime := time.Duration(collectIntervalSec - 1) * time.Second
MaxExecutionTime(sec) == sec - DeadlineMargin

\* the sleep is not shortened by the time the cycle took
SleepTimeFull(sec, sinceStart) == CollectInterval(sec)

\* sleepTime := start.Add(collectInterval).Sub(time.Now()), with
\* sinceStart = time.Now() - start
SleepTime(sec, sinceStart) == CollectInterval(sec) - sinceStart

\* if err != nil && err != io.EOF  (after ExecuteScript)
ExecFailed(err) == err # "nil" /\ err # "EOF"

\* the error of Stream is not looked at
StreamFailedIgnored(err) == FALSE

\* if err := resultSet.Stream(); err != nil
StreamFailed(err) == err # "nil"

\* pixieCtx is derived from ctx: it is done when cancelFn() was called or
\* when ctx itself is cancelled
PixieCtxDone(w, c) == g[w][c].cancelled \/ ctxDone

\* the resultSet that line 112 reads is the variable of line 75, declared
\* nil at the top of the iteration; line 87 declares a resultSet of its own
\* inside the goroutine (:=) and never assigns the outer one
ResultSet(w, c) == "nil"

\* if resultSet != nil { resultSet.Close() }
CloseResultSet(w, c) ==
  IF ResultSet(w, c) # "nil" THEN [g EXCEPT ![w][c].closed = TRUE] ELSE g

\* one converted row: the entities Adapt returns for row k of the run of cycle c
Entity(c, k) == [run |-> c, row |-> k]

\* HandleRecord of the handler: append the converted entities to the batch
HandleRecord(batch, c, k) == Append(batch, Entity(c, k))

\* h.send: the batch handed to the exporter and the batch kept afterwards
SentBatch(batch) == batch
KeptBatch(batch) == <<>>

\* ---- the supervisor: worker.run ----

\* the overrun is slept off as a whole interval instead of being skipped
CadenceAlwaysSleeps(w) ==
  /\ procAlive /\ pc[w] = "log"
  /\ LET sleepTime == SleepTime(Interval[w], elapsed[w])
     IN  /\ pc' = [pc EXCEPT ![w] = "sleep"]
         /\ wake' = [wake EXCEPT ![w] =
                       IF sleepTime > 0 THEN elapsed[w] + sleepTime
                       ELSE elapsed[w] + CollectInterval(Interval[w])]
         /\ skipped' = [skipped EXCEPT ![w] = FALSE]
  /\ g' = CloseResultSet(w, cycle[w])
  /\ UNCHANGED <<cycle, lastEnd, faults, clkVars, acc, exported, delivered,
                 envVars>>

\* lines 112-120, after the select and its log call: Close if the
\* resultSet of line 75 is set, then the cadence sleep or its skip
Cadence(w) ==
  /\ procAlive /\ pc[w] = "log"
  /\ LET sleepTime == SleepTime(Interval[w], elapsed[w])
     IN  IF sleepTime > 0
         THEN /\ pc' = [pc EXCEPT ![w] = "sleep"]
              /\ wake' = [wake EXCEPT ![w] = elapsed[w] + sleepTime]
              /\ skipped' = [skipped EXCEPT ![w] = FALSE]
         ELSE /\ pc' = [pc EXCEPT ![w] = "top"]
              /\ wake' = wake
              /\ skipped' = [skipped EXCEPT ![w] = TRUE]
  /\ g' = CloseResultSet(w, cycle[w])
  /\ UNCHANGED <<cycle, lastEnd, faults, clkVars, acc, exported, delivered,
                 envVars>>

\* wg.Done() without the return: the loop goes round again
LeaveNoReturn(w) ==
  /\ procAlive /\ pc[w] = "top" /\ ctxDone
  /\ doneCalls' = [doneCalls EXCEPT ![w] = @ + 1]
  /\ wgCount' = wgCount - 1
  /\ UNCHANGED <<supVars, clkVars, goVars, ctxDone, procAlive>>

\* case <-ctx.Done(): wg.Done(); return
Leave(w) ==
  /\ procAlive /\ pc[w] = "top" /\ ctxDone
  /\ doneCalls' = [doneCalls EXCEPT ![w] = @ + 1]
  /\ wgCount' = wgCount - 1
  /\ pc' = [pc EXCEPT ![w] = "exited"]
  /\ elapsed' = [elapsed EXCEPT ![w] = 0]
  /\ wake' = [wake EXCEPT ![w] = 0]
  /\ lag' = [lag EXCEPT ![w] = 0]
  /\ lastEnd' = [lastEnd EXCEPT ![w] = "none"]
  /\ skipped' = [skipped EXCEPT ![w] = FALSE]
  /\ UNCHANGED <<cycle, faults, late, goVars, ctxDone, procAlive>>

\* default: start, ch, pixieCtx, go func() {...}, then the select is entered
StartCycle(w) ==
  /\ procAlive /\ pc[w] = "top" /\ ~ctxDone
  /\ Work + 2 <= MaxWork
  /\ cycle' = [cycle EXCEPT ![w] = @ + 1]
  /\ elapsed' = [elapsed EXCEPT ![w] = 0]
  /\ g' = [g EXCEPT ![w][cycle[w] + 1] = [NoGo EXCEPT !.pc = "exec"]]
  /\ pc' = [pc EXCEPT ![w] = "wait"]
  /\ wake' = [wake EXCEPT ![w] = MaxExecutionTime(Interval[w])]
  /\ lag' = [lag EXCEPT ![w] = 0]
  /\ lastEnd' = [lastEnd EXCEPT ![w] = "none"]
  /\ UNCHANGED <<skipped, faults, late, acc, exported, delivered, envVars>>

\* a failed execution ends the loop
ReceiveFatal(w) ==
  /\ procAlive /\ pc[w] = "wait"
  /\ g[w][cycle[w]].ch \notin {"empty", "taken"}
  /\ lastEnd' = [lastEnd EXCEPT ![w] =
                   IF g[w][cycle[w]].ch = "nil" THEN "ok" ELSE "failed"]
  /\ g' = [g EXCEPT ![w][cycle[w]].ch = "taken"]
  /\ pc' = [pc EXCEPT ![w] =
               IF g[w][cycle[w]].ch = "nil" THEN "log" ELSE "exited"]
  /\ UNCHANGED <<cycle, wake, skipped, faults, clkVars, acc, exported,
                 delivered, envVars>>

\* case err := <-ch
Receive(w) ==
  /\ procAlive /\ pc[w] = "wait"
  /\ g[w][cycle[w]].ch \notin {"empty", "taken"}
  /\ lastEnd' = [lastEnd EXCEPT ![w] =
                   IF g[w][cycle[w]].ch = "nil" THEN "ok" ELSE "failed"]
  /\ g' = [g EXCEPT ![w][cycle[w]].ch = "taken"]
  /\ pc' = [pc EXCEPT ![w] = "log"]
  /\ UNCHANGED <<cycle, wake, skipped, faults, clkVars, acc, exported,
                 delivered, envVars>>

\* the cancel function reaches every derived scope of the process
CancelFnAll(w, c) ==
  [v \in Workers |-> [d \in Cycles |-> [g[v][d] EXCEPT !.cancelled = TRUE]]]

\* pixieCtx, cancelFn := context.WithCancel(ctx): cancelFn cancels the
\* pixieCtx of the cycle that created it
CancelFn(w, c) == [g EXCEPT ![w][c].cancelled = TRUE]

\* the deadline cancels, and the supervisor then waits for the outcome
TimeoutBlocks(w) ==
  /\ procAlive /\ pc[w] = "wait"
  /\ elapsed[w] >= wake[w]
  /\ ~g[w][cycle[w]].cancelled
  /\ g' = [g EXCEPT ![w][cycle[w]].cancelled = TRUE]
  /\ UNCHANGED <<supVars, clkVars, acc, exported, delivered, envVars>>

\* case <-time.After(maxExecutionTime): cancelFn()
Timeout(w) ==
  /\ procAlive /\ pc[w] = "wait"
  /\ elapsed[w] >= wake[w]
  /\ lastEnd' = [lastEnd EXCEPT ![w] = "timeout"]
  /\ g' = CancelFn(w, cycle[w])
  /\ pc' = [pc EXCEPT ![w] = "log"]
  /\ UNCHANGED <<cycle, wake, skipped, faults, clkVars, acc, exported,
                 delivered, envVars>>

\* time.Sleep(sleepTime) returns
WakeUp(w) ==
  /\ procAlive /\ pc[w] = "sleep"
  /\ elapsed[w] >= wake[w]
  /\ pc' = [pc EXCEPT ![w] = "top"]
  /\ UNCHANGED <<cycle, wake, lastEnd, skipped, faults, clkVars, goVars,
                 envVars>>

\* a panic raised in the supervisor's own goroutine by the statements that
\* start a cycle, before the goroutine is launched, is recovered by the
\* deferred function: log, then time.Sleep(10s)
SyncFault(w) ==
  /\ procAlive /\ pc[w] = "top" /\ ~ctxDone
  /\ Work + 2 <= MaxWork
  /\ faults' = [faults EXCEPT ![w] = @ + 1]
  /\ lastEnd' = [lastEnd EXCEPT ![w] = "fault"]
  /\ pc' = [pc EXCEPT ![w] = "cooldown"]
  /\ elapsed' = [elapsed EXCEPT ![w] = 0]
  /\ wake' = [wake EXCEPT ![w] = Cooldown]
  /\ UNCHANGED <<cycle, skipped, lag, late, goVars, envVars>>

\* the loop is restarted after the first fault only
RestartLimited(w) ==
  /\ procAlive /\ pc[w] = "cooldown"
  /\ elapsed[w] >= wake[w]
  /\ pc' = [pc EXCEPT ![w] = IF faults[w] <= 1 THEN "top" ELSE "exited"]
  /\ UNCHANGED <<cycle, wake, lastEnd, skipped, faults, clkVars, goVars,
                 envVars>>

\* after the cooldown: w.run(ctx, wg, name, script, collectIntervalSec, h)
Restart(w) ==
  /\ procAlive /\ pc[w] = "cooldown"
  /\ elapsed[w] >= wake[w]
  /\ pc' = [pc EXCEPT ![w] = "top"]
  /\ UNCHANGED <<cycle, wake, lastEnd, skipped, faults, clkVars, goVars,
                 envVars>>

\* ---- the background goroutine of a cycle: worker.go:85-100 ----

\* a panic in a background goroutine is not recovered by the deferred
\* function of worker.run (recover only sees panics of its own goroutine):
\* the runtime terminates the process, with every supervisor and goroutine
\* in it; what the exporter has received and the calls made stay made
Crash ==
  /\ procAlive' = FALSE
  /\ pc' = [w \in Workers |-> IF pc[w] = "off" THEN "off" ELSE "dead"]
  /\ cycle' = [w \in Workers |-> 0]
  /\ elapsed' = [w \in Workers |-> 0]
  /\ wake' = [w \in Workers |-> 0]
  /\ lag' = [w \in Workers |-> 0]
  /\ late' = 0
  /\ lastEnd' = [w \in Workers |-> "none"]
  /\ skipped' = [w \in Workers |-> FALSE]
  /\ faults' = [w \in Workers |-> 0]
  /\ g' = [w \in Workers |-> [c \in Cycles |-> NoGo]]
  /\ acc' = [w \in Workers |-> <<>>]
  /\ delivered' = 0
  /\ UNCHANGED <<ctxDone, wgCount, doneCalls, exported>>

\* the outcomes that sit in the buffer of the channel of cycle c
Buffered(w, c) == IF g[w][c].ch \in {"empty", "taken"} THEN 0 ELSE 1

\* the channel has no buffer: a send needs the supervisor in its select
DeliverableUnbuffered(w, c) == pc[w] = "wait" /\ cycle[w] = c

\* ch <- v goes through: the buffer has room, or the supervisor of the
\* cycle that made ch is in its select (no other statement receives from ch)
Deliverable(w, c) ==
  \/ Buffered(w, c) < ChCap
  \/ pc[w] = "wait" /\ cycle[w] = c

\* w.vz.ExecuteScript returns (resultSet, err).  A cancelled pixieCtx makes
\* it fail.  With err == io.EOF and no handle, line 93 dereferences nil in
\* the goroutine, which recover() of worker.run does not cover.
ExecReturn(w, c, err) ==
  /\ procAlive /\ g[w][c].pc = "exec"
  /\ PixieCtxDone(w, c) => err = "err"
  /\ LET handle == (err = "nil")
     IN  IF ExecFailed(err)
         THEN /\ Deliverable(w, c)
              /\ g' = [g EXCEPT ![w][c] = [@ EXCEPT !.execErr = err,
                         !.ch = "execErr", !.pc = "done"]]
              /\ UNCHANGED <<supVars, clkVars, acc, exported, delivered, envVars>>
         ELSE IF handle
         THEN /\ g' = [g EXCEPT ![w][c] = [@ EXCEPT !.execErr = err,
                         !.pc = "stream"]]
              /\ UNCHANGED <<supVars, clkVars, acc, exported, delivered, envVars>>
         ELSE Crash

\* Stream delivers one row to HandleRecord, which calls Adapt: the row is
\* converted and appended, or Adapt returns an error (jvm.go:106-108,143)
\* that aborts the stream, or Adapt panics (jvm.go:100,138: type assertion
\* or method call on a missing datum)
GoRow(w, c, conv) ==
  /\ procAlive /\ g[w][c].pc = "stream"
  /\ ~PixieCtxDone(w, c)
  /\ delivered < MaxRows
  /\ CASE conv = "ok" ->
            /\ delivered' = delivered + 1
            /\ acc' = [acc EXCEPT ![w] = HandleRecord(@, c, g[w][c].rows + 1)]
            /\ g' = [g EXCEPT ![w][c].rows = @ + 1]
            /\ UNCHANGED <<supVars, clkVars, exported, envVars>>
       [] conv = "err" ->
            /\ Deliverable(w, c)
            /\ g' = [g EXCEPT ![w][c] = [@ EXCEPT !.rows = 0,
                       !.streamErr = "conv", !.ch = "streamErr", !.pc = "done"]]
            /\ delivered' = delivered + 1
            /\ UNCHANGED <<supVars, clkVars, acc, exported, envVars>>
       [] conv = "panic" -> Crash

\* resultSet.Stream() returns: nil at the end of the stream, or an error
GoStreamEnd(w, c, err) ==
  /\ procAlive /\ g[w][c].pc = "stream"
  /\ PixieCtxDone(w, c) => err = "err"
  /\ IF StreamFailed(err)
     THEN /\ Deliverable(w, c)
          /\ g' = [g EXCEPT ![w][c] = [@ EXCEPT !.streamErr = err,
                     !.rows = 0, !.ch = "streamErr", !.pc = "done"]]
     ELSE g' = [g EXCEPT ![w][c] = [@ EXCEPT !.streamErr = err,
                  !.pc = "streamed"]]
  /\ UNCHANGED <<supVars, clkVars, acc, exported, delivered, envVars>>

\* records := h.send(w.exporter); ch <- nil
GoSend(w, c) ==
  /\ procAlive /\ g[w][c].pc = "streamed"
  /\ Deliverable(w, c)
  /\ exported' = [exported EXCEPT ![w] =
                    [run |-> c, batch |-> SentBatch(acc[w])]]
  /\ acc' = [acc EXCEPT ![w] = KeptBatch(@)]
  /\ g' = [g EXCEPT ![w][c] = [@ EXCEPT !.sends = @ + 1,
             !.ch = "nil", !.pc = "done"]]
  /\ UNCHANGED <<supVars, clkVars, delivered, envVars>>

\* ---- environment ----

\* the fleet driver cancels w.ctx
CancelOuter ==
  /\ procAlive /\ ~ctxDone
  /\ Work + 1 <= MaxWork
  /\ ctxDone' = TRUE
  /\ UNCHANGED <<supVars, clkVars, goVars, procAlive, wgCount, doneCalls>>

\* the supervisor has a statement to run now (the select with default never
\* blocks)
AtTop(w) == pc[w] = "top" /\ (ctxDone \/ Work + 2 <= MaxWork)

\* the supervisor is in the select, in a sleep or in the log call
Blocked(w) == pc[w] \in {"wait", "sleep", "cooldown", "log"}

\* the supervisor is blocked and its wake-up is due
Due(w) ==
  \/ pc[w] = "wait" /\ (elapsed[w] >= wake[w]
                        \/ g[w][cycle[w]].ch \notin {"empty", "taken"})
  \/ pc[w] \in {"sleep", "cooldown"} /\ elapsed[w] >= wake[w]

\* the supervisors whose log call is in progress
Logging == {w \in Workers : pc[w] = "log"}

\* one second passes
Tick ==
  /\ procAlive
  /\ \E w \in Workers : Blocked(w)
  /\ \A w \in Workers : ~AtTop(w) /\ ~Due(w)
  /\ Work + Cardinality(Logging) <= MaxWork
  /\ elapsed' = [w \in Workers |->
                   IF Blocked(w) THEN elapsed[w] + 1 ELSE elapsed[w]]
  /\ lag' = [w \in Workers |-> IF w \in Logging THEN lag[w] + 1 ELSE lag[w]]
  /\ late' = late + Cardinality(Logging)
  /\ UNCHANGED <<supVars, goVars, envVars>>

Next ==
  \/ \E w \in Workers : Leave(w)
  \/ \E w \in Workers : StartCycle(w)
  \/ \E w \in Workers : Receive(w)
  \/ \E w \in Workers : Timeout(w)
  \/ \E w \in Workers : Cadence(w)
  \/ \E w \in Workers : WakeUp(w)
  \/ \E w \in Workers : SyncFault(w)
  \/ \E w \in Workers : Restart(w)
  \/ \E w \in Workers, c \in Cycles, err \in {"nil", "err", "EOF"} :
        ExecReturn(w, c, err)
  \/ \E w \in Workers, c \in Cycles, conv \in {"ok", "err", "panic"} :
        GoRow(w, c, conv)
  \/ \E w \in Workers, c \in Cycles, err \in {"nil", "err"} :
        GoStreamEnd(w, c, err)
  \/ \E w \in Workers, c \in Cycles : GoSend(w, c)
  \/ CancelOuter
  \/ Tick

Spec == Init /\ [][Next]_vars

\* The scheduler runs every runnable supervisor and time passes; nothing
\* makes an execution return, the driver cancel or a panic happen.
SupStep(w) ==
  \/ Leave(w) \/ StartCycle(w) \/ Receive(w) \/ Timeout(w)
  \/ Cadence(w) \/ WakeUp(w) \/ Restart(w)

FairSpec == Spec /\ WF_vars(Tick \/ \E w \in Workers : SupStep(w))

TypeOK ==
  /\ ctxDone \in BOOLEAN /\ procAlive \in BOOLEAN
  /\ delivered \in 0..MaxRows
  /\ wgCount \in 0..Cardinality(Workers)
  /\ \A w \in Workers :
       /\ pc[w] \in {"off", "top", "wait", "log", "sleep", "cooldown", "exited",
                    "dead"}
       /\ cycle[w] \in 0..(MaxWork \div 2)
       /\ lag[w] \in 0..MaxWork
       /\ elapsed[w] \in 0..(Interval[w] + Cooldown + MaxWork)

\* ---- properties ----

Max0(x) == IF x > 0 THEN x ELSE 0

\* C1: in every run h.send is invoked at most once, only after
\* ExecuteScript and Stream both returned without an error; a run whose
\* ExecuteScript or Stream reported an error has not invoked it.
C1_SendOnceAfterDrain ==
  \A w \in Workers, c \in Cycles :
    /\ g[w][c].sends <= 1
    /\ g[w][c].sends = 1 =>
          g[w][c].execErr = "nil" /\ g[w][c].streamErr = "nil"
    /\ (g[w][c].execErr = "err" \/ g[w][c].streamErr \in {"err", "conv"}) =>
          g[w][c].sends = 0

C1_Witness ==
  \E w \in Workers, c, d \in Cycles :
    /\ g[w][c].sends = 1
    /\ g[w][d].streamErr \in {"err", "conv"} /\ g[w][d].sends = 0

\* C2: the exporter never receives an entity of a run in which the
\* conversion of a row failed, neither from that run nor from a later one.
C2_NoExportOfFailedRun ==
  \A w \in Workers :
    \A i \in 1..Len(exported[w].batch) :
      g[w][exported[w].batch[i].run].streamErr # "conv"

\* C3: a panic in the row conversion of one integration leaves every
\* other supervisor where it is, and puts its own supervisor into the
\* 10 second cooldown.
C3_CrashIsolation ==
  [][\A a \in Workers, c \in Cycles :
       GoRow(a, c, "panic") =>
         /\ \A b \in Workers \ {a} : pc'[b] = pc[b] /\ cycle'[b] = cycle[b]
         /\ pc'[a] = "cooldown" /\ wake'[a] = Cooldown]_vars

\* C4: the deadline cancels the execution exactly (interval - 1) seconds
\* after the cycle start, the supervisor goes on without the outcome, and
\* when the log call after the select takes no more than the second that
\* is left, the next cycle starts at cycle start + interval.
C4_TimeoutEnforcement ==
  [][\A w \in Workers :
       /\ Timeout(w) =>
            /\ elapsed[w] = Interval[w] - 1
            /\ g'[w][cycle[w]].cancelled
            /\ pc'[w] = "log"
       /\ (StartCycle(w) /\ lastEnd[w] = "timeout" /\ lag[w] <= 1) =>
            elapsed[w] = Interval[w]]_vars

C4_Witness ==
  \E w \in Workers :
    /\ cycle[w] = 2 /\ pc[w] = "wait"
    /\ g[w][1].cancelled /\ g[w][1].pc \in {"exec", "stream"}

\* C5: after a cycle whose outcome was received, and whose log call took
\* no more than a second, the next cycle starts exactly one interval after
\* the start of that cycle.
C5_Cadence ==
  [][\A w \in Workers :
       (StartCycle(w) /\ lastEnd[w] \in {"ok", "failed"} /\ lag[w] <= 1) =>
         elapsed[w] = Interval[w]]_vars

C5_Witness ==
  \E w \in Workers :
    /\ cycle[w] = 2 /\ pc[w] = "wait" /\ ~skipped[w]
    /\ g[w][1].ch = "taken"

\* C6: the sleep is max(0, start + interval - now): when the interval is
\* used up the sleep is skipped, no time passes before the next cycle
\* starts, and that cycle counts from its own start.
C6_OverrunSkip ==
  [][/\ \A w \in Workers :
          /\ Cadence(w) =>
               IF elapsed[w] >= Interval[w]
               THEN pc'[w] = "top" /\ skipped'[w]
               ELSE /\ pc'[w] = "sleep" /\ ~skipped'[w]
                    /\ wake'[w] - elapsed[w] = Max0(Interval[w] - elapsed[w])
          /\ StartCycle(w) =>
               elapsed'[w] = 0 /\ wake'[w] = Interval[w] - 1
     /\ Tick => \A w \in Workers :
                  ~(pc[w] = "top" /\ skipped[w] /\ ~ctxDone
                    /\ Work + 2 <= MaxWork)]_vars

C6_Witness ==
  \E w \in Workers :
    cycle[w] = 2 /\ pc[w] = "wait" /\ skipped[w] /\ elapsed[w] = 0

\* C7: a run whose deadline fired before its outcome arrived never invokes
\* h.send, and the exporter never receives an entity of such a run.
C7_NoExportAfterTimeout ==
  \A w \in Workers :
    /\ \A c \in Cycles : g[w][c].cancelled => g[w][c].sends = 0
    /\ \A i \in 1..Len(exported[w].batch) :
         ~g[w][exported[w].batch[i].run].cancelled

\* C8: a worker calls wg.Done at most once, only when ctx is cancelled,
\* and it has called it exactly when it has returned from its loop.
C8_DoneOnce ==
  /\ \A w \in Workers :
       /\ doneCalls[w] <= 1
       /\ doneCalls[w] = 1 => ctxDone
       /\ doneCalls[w] = 1 <=> pc[w] = "exited"
  /\ wgCount = Cardinality({w \in Workers : pc[w] # "off"})
                 - SumOver(doneCalls, Workers)

C8_Witness ==
  \E w \in Workers :
    doneCalls[w] = 1 /\ cycle[w] = 1 /\ faults[w] = 1

\* C9: once ctx is cancelled, every worker eventually calls wg.Done and
\* returns.
C9_ShutdownCompletes ==
  ctxDone ~> (/\ \A w \in Workers :
                   pc[w] # "off" => pc[w] = "exited" /\ doneCalls[w] = 1
              /\ wgCount = 0)

C9_Witness ==
  /\ \A w \in Workers : pc[w] = "exited"
  /\ \E w \in Workers :
       cycle[w] > 0 /\ g[w][cycle[w]].pc \in {"exec", "stream"}

\* C10: an outcome of any kind, error or deadline, takes the supervisor to
\* the cadence part of the cycle and from there to the next cycle; no
\* error delivered by an execution ends the process; the loop is left only
\* when ctx is cancelled.
C10_ErrorsNotFatal ==
  [][\A w \in Workers :
       /\ (Receive(w) \/ Timeout(w)) => pc'[w] = "log" /\ procAlive'
       /\ pc[w] = "log" => pc'[w] \in {"log", "sleep", "top", "dead"}
       /\ pc[w] = "sleep" => pc'[w] \in {"sleep", "top", "dead"}
       /\ (pc[w] = "top" /\ pc'[w] = "exited") => ctxDone
       /\ pc'[w] = "exited" => pc[w] \in {"top", "exited"}
       /\ \A c \in Cycles :
            g'[w][c].ch \in {"execErr", "streamErr"} => procAlive']_vars

C10_Witness ==
  \E w \in Workers :
    /\ cycle[w] = 2 /\ pc[w] = "wait"
    /\ g[w][1].streamErr = "conv" /\ g[w][1].ch = "taken"

\* the supervisor of w is past lines 112-114 of cycle c: in the cadence
\* sleep of that cycle or beyond it
PastClose(w, c) ==
  \/ cycle[w] > c
  \/ cycle[w] = c /\ pc[w] \in {"sleep", "top", "cooldown", "exited"}

\* C11: when the supervisor is in the cadence sleep of a cycle, or past it,
\* every result handle that ExecuteScript returned in that cycle has been
\* closed.
C11_CloseBeforeSleep ==
  \A w \in Workers, c \in Cycles :
    (PastClose(w, c) /\ g[w][c].execErr = "nil") => g[w][c].closed

\* C12: when a run that was not cut off by its deadline has sent, what the
\* exporter received is the entities of the rows of that run, all of them,
\* in the order of delivery, and nothing else.
C12_ExactBatch ==
  \A w \in Workers :
    LET c == exported[w].run
    IN  (c # 0 /\ g[w][c].sends = 1 /\ ~g[w][c].cancelled) =>
          exported[w].batch = [i \in 1..g[w][c].rows |-> Entity(c, i)]

\* C13: when a cycle launches its execution, the batch that the run will
\* append to is empty, whatever the previous cycles of the worker did.
C13_FreshAccumulator ==
  [][\A w \in Workers : StartCycle(w) => acc[w] = <<>> /\ acc'[w] = <<>>]_vars

\* C14: a run sends its batch after Stream has returned, so after its last
\* row, and while the supervisor is still in the same cycle and has not yet
\* reached the cadence sleep of that cycle.
C14_FlushBeforeSleep ==
  [][\A w \in Workers, c \in Cycles :
       GoSend(w, c) =>
         /\ g[w][c].pc = "streamed"
         /\ cycle[w] = c /\ pc[w] \in {"wait", "log"}]_vars

\* the execution of cycle c is in Stream and can still be handed a row, or
\* is between Stream and the end of h.send
UsesBatch(w, c) ==
  \/ g[w][c].pc = "stream" /\ ~PixieCtxDone(w, c)
  \/ g[w][c].pc = "streamed"

\* C15: of one worker, at most one execution at a time is in a position to
\* append to the worker's batch or to send it.
C15_ExclusiveBatch ==
  \A w \in Workers : Cardinality({c \in Cycles : UsesBatch(w, c)}) <= 1

\* C16: the timeout step sets the cancellation of the pixieCtx of the
\* worker's current cycle and nothing else of any execution; ctx, the
\* process, the worker's cycle count and every other supervisor stay as
\* they are; the worker continues with the cadence part of its cycle and
\* from there with the sleep or the next cycle.
C16_TimeoutFrame ==
  [][\A w \in Workers :
       /\ Timeout(w) =>
            /\ g'[w][cycle[w]] = [g[w][cycle[w]] EXCEPT !.cancelled = TRUE]
            /\ \A v \in Workers, d \in Cycles :
                 (v # w \/ d # cycle[w]) => g'[v][d] = g[v][d]
            /\ ctxDone' = ctxDone /\ procAlive'
            /\ cycle' = cycle /\ pc'[w] = "log"
            /\ \A v \in Workers \ {w} : pc'[v] = pc[v]
            /\ acc' = acc /\ exported' = exported
       /\ (lastEnd[w] = "timeout" /\ pc[w] = "log") =>
            pc'[w] \in {"log", "sleep", "top", "dead"}
       /\ (lastEnd[w] = "timeout" /\ pc[w] = "sleep") =>
            pc'[w] \in {"sleep", "top", "dead"}]_vars

C16_Witness ==
  \E w \in Workers, v \in Workers :
    /\ v # w /\ ~ctxDone
    /\ lastEnd[w] = "timeout" /\ pc[w] = "sleep"
    /\ g[w][cycle[w]].cancelled
    /\ cycle[v] > 0 /\ g[v][cycle[v]].pc \in {"exec", "stream"}
    /\ ~g[v][cycle[v]].cancelled

\* C17: the supervisor looks at ctx only at the top of its loop, and the
\* step that cancels ctx leaves the pixieCtx of every execution in flight
\* as it was: not done if it was not done.
C17_ShutdownCooperative ==
  [][/\ \A w \in Workers : Leave(w) => pc[w] = "top"
     /\ CancelOuter =>
          \A w \in Workers, c \in Cycles :
            g[w][c].pc \in {"exec", "stream"} =>
              (PixieCtxDone(w, c)' <=> PixieCtxDone(w, c))]_vars

\* C18: a panic in the supervisor's own goroutine is recovered once: the
\* process and the other workers go on, the worker sleeps the 10 second
\* cooldown and then is at the top of the loop again with the interval,
\* the handler and its batch it had, however many panics it has recovered
\* before; from there it starts a cycle unless ctx is cancelled.
C18_CrashBarrier ==
  [][\A w \in Workers :
       /\ SyncFault(w) =>
            /\ faults'[w] = faults[w] + 1 /\ procAlive'
            /\ pc'[w] = "cooldown" /\ wake'[w] - elapsed'[w] = 10
            /\ \A v \in Workers \ {w} : pc'[v] = pc[v]
            /\ g' = g /\ acc' = acc /\ doneCalls' = doneCalls
       /\ pc[w] = "cooldown" => pc'[w] \in {"cooldown", "top", "dead"}
       /\ Restart(w) =>
            /\ elapsed[w] = 10 /\ pc'[w] = "top"
            /\ acc' = acc /\ g' = g /\ cycle' = cycle
            /\ wgCount' = wgCount /\ doneCalls' = doneCalls
       /\ (pc[w] = "top" /\ faults[w] > 0 /\ procAlive /\ ~ctxDone
             /\ Work + 2 <= MaxWork) => ENABLED StartCycle(w)]_vars

C18_Witness ==
  \E w \in Workers :
    faults[w] = 2 /\ cycle[w] = 1 /\ pc[w] = "wait" /\ ~ctxDone

\* the goroutine of cycle c is running: launched and not yet returned
Running(w, c) == g[w][c].pc \in {"exec", "stream", "streamed"}

\* an outcome is in the channel
Outcome(v) == v \in {"execErr", "streamErr", "nil"}

\* C19: a goroutine puts an outcome into the channel of its own cycle at
\* the step at which it returns, and at no other step; the channel is
\* empty then, and a running goroutine's send would always go through,
\* also after the supervisor has left the select by the timeout; an
\* outcome is taken only by the supervisor in the select of the cycle the
\* outcome belongs to.
C19_OneOutcome ==
  [][\A w \in Workers, c \in Cycles :
       /\ (Running(w, c) /\ procAlive) => Deliverable(w, c)
       /\ (Running(w, c) /\ ~Running(w, c)' /\ procAlive') =>
            /\ g[w][c].ch = "empty" /\ Outcome(g'[w][c].ch)
            /\ g'[w][c].pc = "done"
       /\ (g'[w][c].ch # g[w][c].ch /\ procAlive') =>
            \/ Running(w, c) /\ g[w][c].ch = "empty" /\ Outcome(g'[w][c].ch)
            \/ /\ Outcome(g[w][c].ch) /\ g'[w][c].ch = "taken"
               /\ c = cycle[w] /\ pc[w] = "wait" /\ pc'[w] = "log"
       /\ g[w][c].pc = "done" => g'[w][c].pc = "done" \/ ~procAlive']_vars

C19_Witness ==
  \E w \in Workers :
    /\ cycle[w] = 2 /\ pc[w] = "wait" /\ g[w][2].ch = "empty"
    /\ g[w][1].cancelled /\ g[w][1].pc = "done" /\ Outcome(g[w][1].ch)

\* the supervisor of w has finished the iteration of cycle c, sleep included
CycleOver(w, c) ==
  \/ cycle[w] > c
  \/ cycle[w] = c /\ pc[w] \in {"top", "cooldown", "exited"}

\* C20: when a cycle is over, the cancel function of its pixieCtx has been
\* called, whichever branch of the select the cycle took.
C20_ScopesCancelled ==
  \A w \in Workers, c \in Cycles : CycleOver(w, c) => g[w][c].cancelled

====
